---- MODULE Spec2Model ----
(***************************************************************************)
(* Gesture-to-scene control core of the Christmas-Tree application.         *)
(*                                                                         *)
(*   HandController.tsx  predict / processGestures  (detector tick)        *)
(*   App.tsx             handlers, React state, pointer smoothing loop     *)
(*   MagicTree.tsx       useFrame (render tick), camera, pick, selection   *)
(*   MagicWorkshop.tsx   photo list, AI generation and edit requests       *)
(*   part_000            asset download script                             *)
(*   part_001            magic message and its timeouts                    *)
(*                                                                         *)
(* Numbers.  Image coordinates, distances and pointer components are       *)
(* fixed-point thousandths (0.06 is 60, 1.0 is 1000); times are in ms.     *)
(*                                                                         *)
(* Scheduling.  The three requestAnimationFrame loops (predict, the App    *)
(* smoothing loop, the react-three-fiber frame loop that calls useFrame)   *)
(* each run once per animation frame, in an order fixed by registration    *)
(* and therefore left open here.  setState calls made inside these         *)
(* callbacks are batched (React 18): they are rendered, and the effects    *)
(* of that render run, in scheduler tasks between animation frames.        *)
(* A callback therefore reads the state of the last commit, never the      *)
(* updates queued during the current frame.                                *)
(***************************************************************************)
EXTENDS Integers, Sequences, FiniteSets, TLC

VARIABLES
    appState,          \* App: useState<AppState>            (committed)
    isGrabbing,        \* App: useState(false)               (committed)
    activePhoto,       \* MagicTree: useState<number|null>   (committed)
    pend,              \* state updates queued since the last commit
    lastStateRef,      \* HandController: lastStateRef.current
    wasPinchingRef,    \* HandController: wasPinchingRef.current
    sincePrediction,   \* performance.now() - lastPredictionTimeRef.current, saturated at THROTTLE_MS
    targetHandPos,     \* App: targetHandPosRef.current  (raw pointer)
    smoothedHandPos,   \* App: smoothedHandPosRef.current
    frame,             \* animation-frame callbacks still to run in this frame
    sample,            \* what the detector returned on the last inference
    emitted,           \* callbacks invoked by processGestures on that result
    sampleNo,          \* parity of the number of inferences made
    lastGrab,          \* observer: last value passed to onGrab
    noHandMs,          \* observer: stopwatch since the last result with a hand
    pickMissed,        \* observer: a held pinch already resolved to no photo
    predictLoop,       \* HandController: a requestAnimationFrame(predict) is pending
    currentLerp,       \* MagicTree: currentLerp.current (morph), in millionths
    treeMs,            \* observer: render time spent in TREE since the mode was last another
    camera,            \* three.js camera.position, in tenths of a world unit
    isMirrored,        \* HandController: useState(true), and isMirroredRef.current
    twin,              \* observer: a second controller fed the same results with the other mirror setting
    controller,        \* HandController: mounted or not, progress of setup(), landmarker, camera stream
    workshop,          \* MagicWorkshop: component state and the AI requests in flight
    download,          \* download script: files on disk and the run in progress
    magic              \* App (later versions): magicMessage and its timers

vars == <<appState, isGrabbing, activePhoto, pend, lastStateRef, wasPinchingRef,
          sincePrediction, targetHandPos, smoothedHandPos, frame, sample,
          emitted, sampleNo, lastGrab, noHandMs, pickMissed, predictLoop,
          currentLerp, treeMs, camera, isMirrored, twin, controller,
          workshop, download, magic>>

\* the components that share no state with the gesture pipeline
apart == <<workshop, download, magic>>

\* the gesture pipeline and the scene
pipeline == <<appState, isGrabbing, activePhoto, pend, lastStateRef, wasPinchingRef,
              sincePrediction, targetHandPos, smoothedHandPos, frame, sample,
              emitted, sampleNo, lastGrab, noHandMs, pickMissed, predictLoop,
              currentLerp, treeMs, camera, isMirrored, twin, controller>>

----------------------------------------------------------------------------
(* AppState enum (types.ts) *)
TREE == "TREE"
SCATTERED == "SCATTERED"
PHOTO_VIEW == "PHOTO_VIEW"
AppStates == {TREE, SCATTERED, PHOTO_VIEW}

None == "none"          \* onStateChange not called
NoPhoto == -1          \* activePhoto === null; nothing hit

(* HandController.tsx *)
PINCH_ENTER == 60
PINCH_EXIT == 100
THROTTLE_MS == 32

Min(a, b) == IF a < b THEN a ELSE b
Max(a, b) == IF a > b THEN a ELSE b

\* Division rounding to nearest (ties away from zero): the fixed-point
\* counterpart of a floating-point product.
RoundDiv(a, b) == IF a >= 0 THEN (2 * a + b) \div (2 * b)
                  ELSE -((2 * (-a) + b) \div (2 * b))

----------------------------------------------------------------------------
(* Landmark samples.  A result carries, for its one hand: the image        *)
(* position of landmarks 0 (wrist) and 9 (middle MCP), their distance      *)
(* (palm), the thumb-tip/index-tip distance (dist) and, for each of the    *)
(* four fingers, the squared distances of tip and pip to the wrist.        *)
Fingers == {"index", "middle", "ring", "pinky"}

\* finger shapes: squared distance to the wrist of each tip and pip
OpenShape  == [tip |-> [f \in Fingers |-> 90], pip |-> [f \in Fingers |-> 40]]
FistShape  == [tip |-> [f \in Fingers |-> 20], pip |-> [f \in Fingers |-> 40]]
\* index extended, the other three curled (a pinching or pointing hand)
PointShape == [tip |-> [f \in Fingers |-> IF f = "index" THEN 90 ELSE 20],
               pip |-> [f \in Fingers |-> 40]]
\* index tip exactly as far from the wrist as its pip, the others curled
EdgeShape  == [tip |-> [f \in Fingers |-> IF f = "index" THEN 40 ELSE 20],
               pip |-> [f \in Fingers |-> 40]]

NoHand == [hands |-> 0]

\* landmarks of a hand as the detector delivers it (indices 0 .. 20)
NumLandmarks == 21

Hand(cx, shape, d) ==
    [hands |-> 1, count |-> NumLandmarks, wrist |-> [x |-> cx, y |-> 550], mcp |-> [x |-> cx, y |-> 450],
     palm |-> 100, dist |-> d, tip |-> shape.tip, pip |-> shape.pip]

----------------------------------------------------------------------------
(* processGestures: the per-sample computations *)

HasLandmarks(s) == s.hands > 0

\* a hand with only n landmarks
Malformed(n) == [Hand(500, OpenShape, 150) EXCEPT !.count = n]

\* drawDebug draws every connection of HAND_CONNECTIONS, which reach index
\* 20: reading .x of a missing landmark throws a TypeError
DrawDebugThrows(s) == HasLandmarks(s) /\ s.count < NumLandmarks

IsFingerCurled(s, f) == s.tip[f] < s.pip[f]

FingersFolded(s) == \A f \in Fingers : IsFingerCurled(s, f)

CenterX(s) == (s.wrist.x + s.mcp.x) \div 2
CenterY(s) == (s.wrist.y + s.mcp.y) \div 2

\* variant of the x mapping: the mirror setting is not consulted
PalmX_IgnoresMirror(s, mirrored) == (500 - CenterX(s)) * 2

PalmX(s, mirrored) == IF mirrored THEN (500 - CenterX(s)) * 2
                      ELSE (CenterX(s) - 500) * 2

PalmY(s) == (500 - CenterY(s)) * 2

ZoomFactor(s) == Min(Max(RoundDiv((s.palm - 100) * 333, 100), 0), 1000)

\* the pinch latch after a sample with thumb-index distance d
\* variants of the latch: an inclusive enter threshold; a single threshold
PinchLatch_InclusiveEnter(was, d) == IF was THEN ~(d > PINCH_EXIT) ELSE d <= PINCH_ENTER
PinchLatch_SingleThreshold(was, d) == d < PINCH_ENTER

PinchLatch(was, d) == IF was THEN ~(d > PINCH_EXIT) ELSE d < PINCH_ENTER

----------------------------------------------------------------------------
(* React state: committed values and the updates queued since the commit.  *)
(* Every setter in the program is called with a plain value, so a queue    *)
(* of updates is represented by the last value queued for each state.      *)
\* a queued value v is <<v>>; nothing queued is << >>
NoUpd == << >>
NoPending == [app |-> NoUpd, grab |-> NoUpd, active |-> NoUpd]

\* setX(v): queued, unless nothing is queued for X and v is the committed
\* value (React bails out of such an update)
SetApp(p, v) == IF p.app = NoUpd /\ v = appState THEN p ELSE [p EXCEPT !.app = <<v>>]
SetGrab(p, v) == IF p.grab = NoUpd /\ v = isGrabbing THEN p ELSE [p EXCEPT !.grab = <<v>>]
SetActive(p, v) == IF p.active = NoUpd /\ v = activePhoto THEN p ELSE [p EXCEPT !.active = <<v>>]

Committed(upd, cur) == IF upd = NoUpd THEN cur ELSE upd[1]

(* App.tsx handlers; each is the closure of the last commit, so it reads   *)
(* the committed appState.                                                 *)
HandleStateChange(p, newState) == SetApp(p, newState)

\* variants of handleGrab: without the PHOTO_VIEW fallback; never releasing
HandleGrab_NoFallback(p, grab) == SetGrab(p, grab)
HandleGrab_NoRelease(p, grab) == IF grab THEN SetGrab(p, TRUE) ELSE p

HandleGrab(p, grab) ==
    LET p1 == SetGrab(p, grab)
    IN  IF ~grab /\ appState = PHOTO_VIEW THEN SetApp(p1, SCATTERED) ELSE p1

HandlePhotoSelect(p, index) ==
    IF appState = SCATTERED THEN SetApp(p, PHOTO_VIEW) ELSE p

----------------------------------------------------------------------------
(* Photos and the pick.  DEFAULT_PHOTOS holds five photos.  The ray cast   *)
(* of useFrame is represented by the footprint of each photo on the        *)
(* pointer's x axis: photo i is hit while the smoothed pointer's x lies    *)
(* within FootprintHalf of FootprintStep * i.                              *)
NumPhotos == 5
PhotoIds == 0 .. (NumPhotos - 1)
FootprintStep == 12
FootprintHalf == 5

Intersects(pos) ==
    {i \in PhotoIds : /\ FootprintStep * i - FootprintHalf <= pos.x
                      /\ pos.x <= FootprintStep * i + FootprintHalf}

\* intersects[0], mapped back to its photo index; NoPhoto when nothing is hit
PhotoUnder(pos) ==
    IF Intersects(pos) = {} THEN NoPhoto
    ELSE CHOOSE i \in Intersects(pos) : \A j \in Intersects(pos) : i <= j

----------------------------------------------------------------------------
(* Pointer smoothing (App.tsx smoothing loop) *)
LERP_PCT == 15

\* variant of the smoothing step: a factor above 1
Lerp1_Overshoot(cur, tgt) == cur + RoundDiv((tgt - cur) * 215, 100)

Lerp1(cur, tgt) == cur + RoundDiv((tgt - cur) * LERP_PCT, 100)

Smooth(cur, tgt) ==
    [x |-> Lerp1(cur.x, tgt.x), y |-> Lerp1(cur.y, tgt.y), z |-> Lerp1(cur.z, tgt.z)]

Origin == [x |-> 0, y |-> 0, z |-> 0]

Abs(a) == IF a < 0 THEN -a ELSE a

\* cursor.style.opacity = isCenter ? '0' : '1'
CursorHidden(pos) == Abs(pos.x) < 1 /\ Abs(pos.y) < 1

----------------------------------------------------------------------------
(* MagicTree.tsx: the camera branch of useFrame *)
(* camera.  Positions are in tenths of a world unit, angles in            *)
(* milliradians, sines and cosines in thousandths.                         *)
\* CONFIG.CAMERA_Z, in world units
CAMERA_Z == 15

TreePose == [x |-> 0, y |-> 0, z |-> CAMERA_Z * 10]

\* Math.sin and Math.cos on the angles the pointer can produce (below
\* 0.48 rad), by their series
SinMilli(t) == t - RoundDiv(t * t * t, 6000000)
CosMilli(t) == 1000 - RoundDiv(t * t, 2000)
                    + RoundDiv(RoundDiv(t * t, 1000) * RoundDiv(t * t, 1000), 24000)

\* theta = handPos.x * (Math.PI * 0.15)
Theta(pos) == RoundDiv(pos.x * 4712, 10000)
\* Math.PI / 2 - phi = handPos.y * Math.PI / 12
Elevation(pos) == RoundDiv(pos.y * 2618, 10000)
\* zoomRadius = CONFIG.CAMERA_Z - handPos.z * 5
ZoomRadius(pos) == CAMERA_Z * 10 - RoundDiv(pos.z * 50, 1000)

\* targetPos.setFromSphericalCoords(zoomRadius, phi, theta)
OrbitTarget(pos) ==
    [x |-> RoundDiv(ZoomRadius(pos) * RoundDiv(CosMilli(Elevation(pos)) * SinMilli(Theta(pos)), 1000), 1000),
     y |-> RoundDiv(ZoomRadius(pos) * SinMilli(Elevation(pos)), 1000),
     z |-> RoundDiv(ZoomRadius(pos) * RoundDiv(CosMilli(Elevation(pos)) * CosMilli(Theta(pos)), 1000), 1000)]

\* camera.position.lerp(tgt, delta * rate), delta = dt / 1000, rate in tenths
CameraLerp(cam, tgt, dt, rate) ==
    [x |-> cam.x + RoundDiv((tgt.x - cam.x) * dt * rate, 10000),
     y |-> cam.y + RoundDiv((tgt.y - cam.y) * dt * rate, 10000),
     z |-> cam.z + RoundDiv((tgt.z - cam.z) * dt * rate, 10000)]

\* the camera branch of useFrame: no branch is taken in PHOTO_VIEW
CameraStep(cam, mode, pos, dt) ==
    IF mode = SCATTERED THEN CameraLerp(cam, OrbitTarget(pos), dt, 8)
    ELSE IF mode = TREE THEN CameraLerp(cam, TreePose, dt, 20)
    ELSE cam

----------------------------------------------------------------------------
\* grab: << >> when onGrab was not called, <<b>> when it was called with b
NoEvents == [state |-> None, grab |-> << >>, move |-> FALSE]
NoSample == [hand |-> FALSE, folded |-> FALSE, dist |-> 0]

(* the same computations for a controller whose refs are the record ctl   *)
(* and whose isMirroredRef.current is mirrored                             *)
TwinStart == [target |-> Origin, lastState |-> TREE, wasPinching |-> FALSE,
              state |-> None, grab |-> << >>]

TwinGestures(ctl, s, mirrored) ==
    [target      |-> [x |-> PalmX(s, mirrored), y |-> PalmY(s), z |-> ZoomFactor(s)],
     lastState   |-> IF FingersFolded(s) THEN TREE
                     ELSE IF ctl.lastState = TREE THEN SCATTERED ELSE ctl.lastState,
     wasPinching |-> IF FingersFolded(s) THEN FALSE ELSE PinchLatch(ctl.wasPinching, s.dist),
     state       |-> IF FingersFolded(s)
                     THEN (IF ctl.lastState # TREE THEN TREE ELSE None)
                     ELSE (IF ctl.lastState = TREE THEN SCATTERED ELSE None),
     grab        |-> <<IF FingersFolded(s) THEN FALSE ELSE PinchLatch(ctl.wasPinching, s.dist)>>]

(* HandController.tsx: the mount effect.  setup() is at one of its awaits  *)
(* or past them; the landmarker is none, open or closed; the camera stream *)
(* is none, live or stopped; srcObject tells whether video.srcObject holds *)
(* the stream.                                                             *)
Running == [mounted |-> TRUE, setup |-> "done", landmarker |-> "open",
            stream |-> "live", srcObject |-> TRUE]

(* MagicWorkshop.tsx.  A photo is a number: those the parent passes in at  *)
(* first are 0 and 1, and each request is given, when it starts, the       *)
(* number of the image it will deliver.  Indices count from 0 as in the    *)
(* source.                                                                 *)
InitialPhotos == <<0, 1>>

\* editingIndex === null
NoIndex == -1

WorkshopStart ==
    [photos |-> InitialPhotos, prompt |-> FALSE, isProcessing |-> FALSE,
     editingIndex |-> NoIndex, requests |-> {}, fresh |-> Len(InitialPhotos)]

(* The download script (second version).  Per file: what is at dest on    *)
(* disk, whether a write stream created for dest has still to open it, the *)
(* state of the promise download() returned to main, and whether the       *)
(* previous run of the script failed to download it.                       *)
Files == {"hand_landmarker.task", "vision_wasm_internal.wasm", "vision_wasm_internal.js"}

DownloadStart ==
    [disk |-> [f \in Files |-> "absent"], opening |-> [f \in Files |-> FALSE],
     task |-> [f \in Files |-> "idle"], failed |-> [f \in Files |-> FALSE],
     run |-> 1]

(* App (part_001): magicMessage, 0 for the empty string; the mode last     *)
(* signalled by the controller; the pending timeouts, each by the time it  *)
(* has left, oldest first; and, as an observer, how long ago the message   *)
(* was set.                                                                *)
MESSAGE_MS == 5000

MagicStart == [mode |-> TREE, message |-> 0, age |-> 0, timers |-> << >>]


Callbacks == {"predict", "loop", "render"}

Init ==
    /\ appState = TREE
    /\ isGrabbing = FALSE
    /\ activePhoto = NoPhoto
    /\ pend = NoPending
    /\ lastStateRef = TREE
    /\ wasPinchingRef = FALSE
    /\ sincePrediction = THROTTLE_MS
    /\ targetHandPos = Origin
    /\ smoothedHandPos = Origin
    /\ frame = {}
    /\ sample = NoSample
    /\ emitted = NoEvents
    /\ sampleNo = 0
    /\ lastGrab = << >>
    /\ noHandMs = 0
    /\ pickMissed = FALSE
    /\ predictLoop = TRUE
    /\ currentLerp = 0
    /\ treeMs = 0
    /\ camera = TreePose
    /\ isMirrored = TRUE
    /\ twin = TwinStart
    /\ controller = Running
    /\ workshop = WorkshopStart
    /\ download = DownloadStart
    /\ magic = MagicStart

----------------------------------------------------------------------------
(* Animation frames.  A frame begins once React has rendered the updates   *)
(* of the previous one; dt is the time since the previous frame.           *)
Elapse(dt) ==
    /\ frame = {}
    /\ pend = NoPending
    /\ frame' = (IF predictLoop THEN Callbacks ELSE Callbacks \ {"predict"})
    /\ sincePrediction' = Min(sincePrediction + dt, THROTTLE_MS)

BeginFrame(dt) ==
    /\ Elapse(dt)
    /\ UNCHANGED <<appState, isGrabbing, activePhoto, pend, lastStateRef,
                   wasPinchingRef, targetHandPos, smoothedHandPos, sample,
                   emitted, sampleNo, lastGrab, noHandMs, pickMissed,
                   predictLoop, currentLerp, treeMs, camera, isMirrored, twin, controller, apart>>

----------------------------------------------------------------------------
(* HandController.tsx: processGestures(result) *)

Classify(s) ==
    IF HasLandmarks(s)
    THEN [hand |-> TRUE, folded |-> FingersFolded(s), dist |-> s.dist]
    ELSE NoSample

\* lastStateRef.current after the sample
NextLastState(s) ==
    IF FingersFolded(s) THEN TREE
    ELSE IF lastStateRef = TREE THEN SCATTERED ELSE lastStateRef

\* variant of the state signal: SCATTERED on every open sample
StateEvent_EveryOpen(s) ==
    IF FingersFolded(s)
    THEN (IF lastStateRef # TREE THEN TREE ELSE None)
    ELSE SCATTERED

\* the argument of onStateChange, None when it is not called
StateEvent(s) ==
    IF FingersFolded(s)
    THEN (IF lastStateRef # TREE THEN TREE ELSE None)
    ELSE (IF lastStateRef = TREE THEN SCATTERED ELSE None)

\* the argument of onGrab
GrabEvent(s) ==
    IF FingersFolded(s) THEN FALSE ELSE PinchLatch(wasPinchingRef, s.dist)

\* variant of the latch update: a fist leaves the latch as computed
NextWasPinching_NoClear(s) == PinchLatch(wasPinchingRef, s.dist)

\* wasPinchingRef.current after the sample
NextWasPinching(s) ==
    IF FingersFolded(s) THEN FALSE ELSE PinchLatch(wasPinchingRef, s.dist)

\* the callbacks in the order processGestures makes them
Dispatch(p, s) ==
    LET p1 == IF StateEvent(s) = None THEN p ELSE HandleStateChange(p, StateEvent(s))
    IN  HandleGrab(p1, GrabEvent(s))

\* variant of processGestures: a sample without a hand resets the pointer
\* target and the latch, and signals grab false
ProcessGestures_NoneResets(s) ==
    /\ sample' = Classify(s)
    /\ sampleNo' = 1 - sampleNo
    /\ IF ~HasLandmarks(s)
       THEN /\ emitted' = [NoEvents EXCEPT !.grab = <<FALSE>>]
            /\ targetHandPos' = Origin
            /\ wasPinchingRef' = FALSE
            /\ pend' = HandleGrab(pend, FALSE)
            /\ lastGrab' = <<FALSE>>
            /\ UNCHANGED <<lastStateRef, noHandMs, twin>>
       ELSE /\ targetHandPos' = [x |-> PalmX(s, isMirrored), y |-> PalmY(s), z |-> ZoomFactor(s)]
            /\ lastStateRef' = NextLastState(s)
            /\ wasPinchingRef' = NextWasPinching(s)
            /\ pend' = Dispatch(pend, s)
            /\ emitted' = [state |-> StateEvent(s), grab |-> <<GrabEvent(s)>>, move |-> TRUE]
            /\ lastGrab' = <<GrabEvent(s)>>
            /\ noHandMs' = 0
            /\ twin' = TwinGestures(twin, s, ~isMirrored)

ProcessGestures(s) ==
    /\ sample' = Classify(s)
    /\ sampleNo' = 1 - sampleNo
    /\ IF ~HasLandmarks(s)
       THEN /\ emitted' = NoEvents
            /\ UNCHANGED <<targetHandPos, lastStateRef, wasPinchingRef, pend,
                           lastGrab, noHandMs, twin>>
       ELSE /\ targetHandPos' = [x |-> PalmX(s, isMirrored), y |-> PalmY(s), z |-> ZoomFactor(s)]
            /\ lastStateRef' = NextLastState(s)
            /\ wasPinchingRef' = NextWasPinching(s)
            /\ pend' = Dispatch(pend, s)
            /\ emitted' = [state |-> StateEvent(s), grab |-> <<GrabEvent(s)>>, move |-> TRUE]
            /\ lastGrab' = <<GrabEvent(s)>>
            /\ noHandMs' = 0
            /\ twin' = TwinGestures(twin, s, ~isMirrored)

(* HandController.tsx: predict() *)
PredictThrottled ==
    /\ "predict" \in frame
    /\ sincePrediction < THROTTLE_MS
    /\ frame' = frame \ {"predict"}
    /\ UNCHANGED <<appState, isGrabbing, activePhoto, pend, lastStateRef,
                   wasPinchingRef, sincePrediction, targetHandPos,
                   smoothedHandPos, sample, emitted, sampleNo, lastGrab,
                   noHandMs, pickMissed,
                   predictLoop, currentLerp, treeMs, camera, isMirrored, twin, controller, apart>>

\* admitted, but the video has no new frame (or no size yet)
PredictNoVideoFrame ==
    /\ "predict" \in frame
    /\ ~(sincePrediction < THROTTLE_MS)
    /\ frame' = frame \ {"predict"}
    /\ sincePrediction' = 0
    /\ UNCHANGED <<appState, isGrabbing, activePhoto, pend, lastStateRef,
                   wasPinchingRef, targetHandPos, smoothedHandPos, sample,
                   emitted, sampleNo, lastGrab, noHandMs, pickMissed,
                   predictLoop, currentLerp, treeMs, camera, isMirrored, twin, controller, apart>>

\* variant of predict: detection is not rate-limited
PredictDetect_Unthrottled(s) ==
    /\ "predict" \in frame
    /\ frame' = frame \ {"predict"}
    /\ sincePrediction' = 0
    /\ ~DrawDebugThrows(s)
    /\ ProcessGestures(s)
    /\ UNCHANGED <<appState, isGrabbing, activePhoto, smoothedHandPos, pickMissed,
                   predictLoop, currentLerp, treeMs, camera, isMirrored, controller, apart>>

\* admitted, a new video frame: s is the result of detectForVideo
PredictDetect(s) ==
    /\ "predict" \in frame
    /\ ~(sincePrediction < THROTTLE_MS)
    /\ frame' = frame \ {"predict"}
    /\ sincePrediction' = 0
    /\ ~DrawDebugThrows(s)
    /\ ProcessGestures(s)
    /\ UNCHANGED <<appState, isGrabbing, activePhoto, smoothedHandPos, pickMissed,
                   predictLoop, currentLerp, treeMs, camera, isMirrored, controller, apart>>

\* admitted, a new video frame, and drawDebug throws: the exception leaves
\* predict before processGestures and before the next requestAnimationFrame
PredictThrows(s) ==
    /\ "predict" \in frame
    /\ ~(sincePrediction < THROTTLE_MS)
    /\ DrawDebugThrows(s)
    /\ frame' = frame \ {"predict"}
    /\ sincePrediction' = 0
    /\ predictLoop' = FALSE
    /\ UNCHANGED <<appState, isGrabbing, activePhoto, pend, lastStateRef,
                   wasPinchingRef, targetHandPos, smoothedHandPos, sample,
                   emitted, sampleNo, lastGrab, noHandMs, pickMissed,
                   currentLerp, treeMs, camera, isMirrored, twin, controller, apart>>

----------------------------------------------------------------------------
(* App.tsx: the smoothing loop *)
SmoothLoop ==
    /\ "loop" \in frame
    /\ frame' = frame \ {"loop"}
    /\ smoothedHandPos' = Smooth(smoothedHandPos, targetHandPos)
    /\ UNCHANGED <<appState, isGrabbing, activePhoto, pend, lastStateRef,
                   wasPinchingRef, sincePrediction, targetHandPos, sample,
                   emitted, sampleNo, lastGrab, noHandMs, pickMissed,
                   predictLoop, currentLerp, treeMs, camera, isMirrored, twin, controller, apart>>

----------------------------------------------------------------------------
(* MagicTree.tsx: useFrame.  The instanced mesh is mounted with the        *)
(* component, so the early return on a missing mesh is never taken.        *)

\* morph parameter: 1.0 in millionths
MorphOne == 1000000

TargetLerp(mode) == IF mode = TREE THEN 0 ELSE MorphOne

\* currentLerp.current += (targetLerp - currentLerp.current) * delta * 2,
\* with delta = dt / 1000 (dt in ms)
MorphStep(cur, mode, dt) == cur + RoundDiv((TargetLerp(mode) - cur) * dt, 500)

(* interaction logic *)
\* variant of the pick condition: the mode is not consulted
PickAttempted_AnyMode == isGrabbing /\ activePhoto = NoPhoto

\* variant of the pick condition: grab is not consulted
PickAttempted_IgnoringGrab == appState = SCATTERED /\ activePhoto = NoPhoto

PickAttempted == appState = SCATTERED /\ isGrabbing /\ activePhoto = NoPhoto

Interaction(p) ==
    IF PickAttempted
    THEN (IF PhotoUnder(smoothedHandPos) # NoPhoto
          THEN HandlePhotoSelect(SetActive(p, PhotoUnder(smoothedHandPos)),
                                 PhotoUnder(smoothedHandPos))
          ELSE p)
    ELSE IF appState = PHOTO_VIEW /\ ~isGrabbing
         THEN SetActive(p, NoPhoto)
         ELSE p

RenderTick(dt) ==
    /\ "render" \in frame
    /\ frame' = frame \ {"render"}
    /\ currentLerp' = MorphStep(currentLerp, appState, dt)
    /\ camera' = CameraStep(camera, appState, smoothedHandPos, dt)
    /\ pend' = Interaction(pend)
    /\ pickMissed' = IF PickAttempted /\ PhotoUnder(smoothedHandPos) = NoPhoto THEN TRUE
                     ELSE IF ~isGrabbing THEN FALSE
                     ELSE pickMissed
    /\ UNCHANGED <<appState, isGrabbing, activePhoto, lastStateRef,
                   wasPinchingRef, sincePrediction, targetHandPos,
                   smoothedHandPos, sample, emitted, sampleNo, lastGrab,
                   noHandMs,
                   predictLoop, isMirrored, twin, controller, apart>>

\* the render tick, unobserved
UseFrame(dt) == RenderTick(dt) /\ UNCHANGED treeMs

----------------------------------------------------------------------------
(* React: render of the queued updates, then the effects of that render.   *)
(* MagicTree's effect on [appState] clears the selection when the new      *)
(* appState is SCATTERED; HandController's effect stores the new handlers. *)
AfterEffects(oldApp, newApp, newActive) ==
    IF newApp # oldApp /\ newApp = SCATTERED /\ newActive # NoPhoto
    THEN [NoPending EXCEPT !.active = <<NoPhoto>>]
    ELSE NoPending

Commit ==
    /\ frame = {}
    /\ pend # NoPending
    /\ appState' = Committed(pend.app, appState)
    /\ isGrabbing' = Committed(pend.grab, isGrabbing)
    /\ activePhoto' = Committed(pend.active, activePhoto)
    /\ pend' = AfterEffects(appState, appState', activePhoto')
    /\ UNCHANGED <<lastStateRef, wasPinchingRef, sincePrediction, targetHandPos,
                   smoothedHandPos, frame, sample, emitted, sampleNo, lastGrab,
                   noHandMs, pickMissed,
                   predictLoop, currentLerp, treeMs, camera, isMirrored, twin, controller, apart>>

----------------------------------------------------------------------------
(* Inputs *)
FrameDts == {16, 40}

\* delta of the render clock.  Here the morph reaches its target in one
\* tick; its course over shorter and longer deltas is followed in
\* SpecStall and SpecReturn.
RenderDts == {500}

\* image x of the palm centre: 500 maps to pointer x 0, 490 to pointer x 20
Centres == {500, 490}

\* thumb-index distances: inside, on and between the two thresholds, and beyond
Dists == {55, 60, 65, 100, 150}

Shapes == {OpenShape, FistShape, PointShape, EdgeShape}

Samples ==
    {NoHand} \cup {Hand(c, sh, d) : c \in Centres, sh \in Shapes, d \in Dists}

Next ==
    \/ \E dt \in FrameDts : BeginFrame(dt)
    \/ PredictThrottled
    \/ PredictNoVideoFrame
    \/ \E s \in Samples : PredictDetect(s)
    \/ SmoothLoop
    \/ \E dt \in RenderDts : UseFrame(dt)
    \/ Commit

Spec == Init /\ [][Next]_vars

----------------------------------------------------------------------------
(* The same program observed with a stopwatch: noHandMs runs while no      *)
(* result with a hand arrives (processGestures resets it).                 *)
MaxIdleMs == 1001

IdleFrame(dt) ==
    /\ Elapse(dt)
    /\ noHandMs' = Min(noHandMs + dt, MaxIdleMs)
    /\ UNCHANGED <<appState, isGrabbing, activePhoto, pend, lastStateRef,
                   wasPinchingRef, targetHandPos, smoothedHandPos, sample,
                   emitted, sampleNo, lastGrab, pickMissed,
                   predictLoop, currentLerp, treeMs, camera, isMirrored, twin, controller, apart>>

IdleDts == {20, 500}

IdleSamples ==
    {NoHand, Hand(500, OpenShape, 150), Hand(500, PointShape, 55),
     Hand(490, OpenShape, 150), Hand(500, FistShape, 150)}

NextIdle ==
    \/ \E dt \in IdleDts : IdleFrame(dt)
    \/ PredictThrottled
    \/ PredictNoVideoFrame
    \/ \E s \in IdleSamples : PredictDetect(s)
    \/ SmoothLoop
    \/ \E dt \in RenderDts : UseFrame(dt)
    \/ Commit

SpecIdle == Init /\ [][NextIdle]_vars

----------------------------------------------------------------------------
(* The same program with a detector that may deliver a hand with fewer     *)
(* than 21 landmarks.                                                      *)
MalformedSamples == {Malformed(5), Malformed(20)}

NextMalformed ==
    \/ \E dt \in FrameDts : BeginFrame(dt)
    \/ PredictThrottled
    \/ PredictNoVideoFrame
    \/ \E s \in Samples : PredictDetect(s)
    \/ \E s \in MalformedSamples : PredictThrows(s)
    \/ SmoothLoop
    \/ \E dt \in RenderDts : UseFrame(dt)
    \/ Commit

SpecMalformed == Init /\ [][NextMalformed]_vars

----------------------------------------------------------------------------
(* The same program with a render clock that stalls: deltas of 0.5 s and   *)
(* more, as after a hidden tab or a blocked main thread.  The pointer      *)
(* stays at the centre, over photo 0.                                      *)
StallDts == {500, 600}

StallSamples ==
    {Hand(500, OpenShape, 150), Hand(500, FistShape, 150), Hand(500, PointShape, 55)}

NextStall ==
    \/ \E dt \in FrameDts : BeginFrame(dt)
    \/ PredictThrottled
    \/ PredictNoVideoFrame
    \/ \E s \in StallSamples : PredictDetect(s)
    \/ SmoothLoop
    \/ \E dt \in StallDts : UseFrame(dt)
    \/ Commit

SpecStall == Init /\ [][NextStall]_vars

----------------------------------------------------------------------------
(* The same program at a steady 25 render ticks per second, a hand that    *)
(* opens for one visit to SCATTERED of any length and then stays closed,   *)
(* and a stopwatch on the time rendered in TREE.                           *)
MaxTreeMs == 2000

TimedUseFrame(dt) ==
    /\ RenderTick(dt)
    /\ treeMs' = (IF appState = TREE THEN Min(treeMs + dt, MaxTreeMs) ELSE 0)

ReturnDts == {40}

ReturnSamples == {Hand(500, OpenShape, 150), Hand(500, FistShape, 150)}

\* the hand does not open again once the tree has begun to re-form
OneVisit(s) == FingersFolded(s) \/ lastStateRef = SCATTERED \/ currentLerp = 0

VisitDetect(s) == OneVisit(s) /\ PredictDetect(s)

NextReturn ==
    \/ \E dt \in FrameDts : BeginFrame(dt)
    \/ PredictThrottled
    \/ PredictNoVideoFrame
    \/ \E s \in ReturnSamples : VisitDetect(s)
    \/ SmoothLoop
    \/ \E dt \in ReturnDts : TimedUseFrame(dt)
    \/ Commit

SpecReturn == Init /\ [][NextReturn]_vars

----------------------------------------------------------------------------
(* The same program from the moment the hand has left the camera: the raw  *)
(* pointer rests where the last sample put it, the smoothed pointer is     *)
(* anywhere, and every detection result is without a hand.  No state       *)
(* update is ever queued, so React renders nothing.  Animation frames      *)
(* keep coming (each loop requests its next frame).                        *)
RawStarts ==
    {Origin, [x |-> 20, y |-> 0, z |-> 0], [x |-> 1000, y |-> -1000, z |-> 1000],
     [x |-> -1000, y |-> 1000, z |-> 0]}

SmoothedStarts ==
    {Origin, [x |-> 1000, y |-> 1000, z |-> 1000], [x |-> -1000, y |-> -1000, z |-> 0]}

InitSmooth ==
    /\ appState = TREE
    /\ isGrabbing = FALSE
    /\ activePhoto = NoPhoto
    /\ pend = NoPending
    /\ lastStateRef = TREE
    /\ wasPinchingRef = FALSE
    /\ sincePrediction = THROTTLE_MS
    /\ targetHandPos \in RawStarts
    /\ smoothedHandPos \in SmoothedStarts
    /\ frame = {}
    /\ sample = NoSample
    /\ emitted = NoEvents
    /\ sampleNo = 0
    /\ lastGrab = << >>
    /\ noHandMs = 0
    /\ pickMissed = FALSE
    /\ predictLoop = TRUE
    /\ currentLerp = 0
    /\ treeMs = 0
    /\ camera = TreePose
    /\ isMirrored = TRUE
    /\ twin = TwinStart
    /\ controller = Running
    /\ workshop = WorkshopStart
    /\ download = DownloadStart
    /\ magic = MagicStart

NextSmooth ==
    \/ \E dt \in FrameDts : BeginFrame(dt)
    \/ PredictThrottled
    \/ PredictNoVideoFrame
    \/ PredictDetect(NoHand)
    \/ SmoothLoop
    \/ \E dt \in RenderDts : UseFrame(dt)

SpecSmooth == InitSmooth /\ [][NextSmooth]_vars /\ WF_vars(NextSmooth)

----------------------------------------------------------------------------
(* The same program with a pinching hand that starts at the centre of the *)
(* image and drifts a quarter of the image away (pointer x = 0.5), where   *)
(* it stays: the orbit target of the camera then lies well off the TREE    *)
(* pose.                                                                   *)
CameraSamples == {Hand(500, PointShape, 55), Hand(250, PointShape, 55)}

\* the hand does not come back to the centre
Drift(s) == targetHandPos.x = 0 \/ CenterX(s) = 250

DriftDetect(s) == Drift(s) /\ PredictDetect(s)

NextCamera ==
    \/ \E dt \in FrameDts : BeginFrame(dt)
    \/ PredictThrottled
    \/ PredictNoVideoFrame
    \/ \E s \in CameraSamples : DriftDetect(s)
    \/ SmoothLoop
    \/ \E dt \in RenderDts : UseFrame(dt)
    \/ Commit

SpecCamera == Init /\ [][NextCamera]_vars

----------------------------------------------------------------------------
(* The same program with a user who clicks the mirror button.  A click is *)
(* a discrete event: React renders it and runs the effect that stores the  *)
(* new setting in isMirroredRef before the next animation frame.  The twin *)
(* controller always has the other setting.                                *)
ToggleMirror ==
    /\ frame = {}
    /\ isMirrored' = ~isMirrored
    /\ UNCHANGED <<appState, isGrabbing, activePhoto, pend, lastStateRef,
                   wasPinchingRef, sincePrediction, targetHandPos,
                   smoothedHandPos, frame, sample, emitted, sampleNo, lastGrab,
                   noHandMs, pickMissed, predictLoop, currentLerp, treeMs,
                   camera, twin, controller, apart>>

\* the palm centre a quarter of the image left of the middle
MirrorSamples ==
    {NoHand, Hand(250, OpenShape, 150), Hand(250, FistShape, 150),
     Hand(250, PointShape, 55)}

\* the button is clicked before a hand has come into the picture
MirrorClick == targetHandPos = Origin /\ ToggleMirror

NextMirror ==
    \/ \E dt \in FrameDts : BeginFrame(dt)
    \/ PredictThrottled
    \/ PredictNoVideoFrame
    \/ \E s \in MirrorSamples : PredictDetect(s)
    \/ SmoothLoop
    \/ \E dt \in RenderDts : UseFrame(dt)
    \/ Commit
    \/ MirrorClick

SpecMirror == Init /\ [][NextMirror]_vars

----------------------------------------------------------------------------
(* The same program from the mount of HandController, with its setup()     *)
(* still to run and an unmount that may come at any time.  The             *)
(* continuations of setup() and the cleanup run between animation frames.  *)
Mounting == [mounted |-> TRUE, setup |-> "vision", landmarker |-> "none",
             stream |-> "none", srcObject |-> FALSE]

InitSetup ==
    /\ appState = TREE
    /\ isGrabbing = FALSE
    /\ activePhoto = NoPhoto
    /\ pend = NoPending
    /\ lastStateRef = TREE
    /\ wasPinchingRef = FALSE
    /\ sincePrediction = THROTTLE_MS
    /\ targetHandPos = Origin
    /\ smoothedHandPos = Origin
    /\ frame = {}
    /\ sample = NoSample
    /\ emitted = NoEvents
    /\ sampleNo = 0
    /\ lastGrab = << >>
    /\ noHandMs = 0
    /\ pickMissed = FALSE
    /\ predictLoop = FALSE
    /\ currentLerp = 0
    /\ treeMs = 0
    /\ camera = TreePose
    /\ isMirrored = TRUE
    /\ twin = TwinStart
    /\ controller = Mounting
    /\ workshop = WorkshopStart
    /\ download = DownloadStart
    /\ magic = MagicStart

\* what a continuation of setup() or the cleanup leaves alone
SetupFrame ==
    /\ frame = {}
    /\ UNCHANGED <<appState, isGrabbing, activePhoto, pend, lastStateRef,
                   wasPinchingRef, sincePrediction, targetHandPos,
                   smoothedHandPos, frame, sample, emitted, sampleNo, lastGrab,
                   noHandMs, pickMissed, currentLerp, treeMs, camera,
                   isMirrored, twin, apart>>

\* await FilesetResolver.forVisionTasks(...) resolves
ResolveVision ==
    /\ controller.setup = "vision"
    /\ controller' = [controller EXCEPT !.setup = "landmarker"]
    /\ UNCHANGED predictLoop
    /\ SetupFrame

\* await HandLandmarker.createFromOptions(...) resolves; videoRef.current
\* is null once the component is unmounted, and setup() then returns
ResolveLandmarker ==
    /\ controller.setup = "landmarker"
    /\ controller' = [controller EXCEPT
                         !.landmarker = "open",
                         !.setup = IF controller.mounted THEN "camera" ELSE "returned"]
    /\ UNCHANGED predictLoop
    /\ SetupFrame

\* await navigator.mediaDevices.getUserMedia(...) resolves
ResolveCamera ==
    /\ controller.setup = "camera"
    /\ controller' = [controller EXCEPT
                         !.stream = "live", !.srcObject = TRUE, !.setup = "metadata"]
    /\ UNCHANGED predictLoop
    /\ SetupFrame

\* onloadedmetadata fires on a video that has a live stream: play(),
\* setLoaded(true), predict()
ResolveMetadata ==
    /\ controller.setup = "metadata"
    /\ controller.stream = "live"
    /\ controller' = [controller EXCEPT !.setup = "done"]
    /\ predictLoop' = TRUE
    /\ SetupFrame

\* the cleanup of the mount effect
Unmount ==
    /\ controller.mounted
    /\ predictLoop' = FALSE
    /\ controller' = [controller EXCEPT
                         !.mounted = FALSE,
                         !.stream = IF controller.srcObject /\ controller.stream = "live"
                                    THEN "stopped" ELSE controller.stream,
                         !.landmarker = IF controller.landmarker = "open"
                                        THEN "closed" ELSE controller.landmarker]
    /\ SetupFrame

\* a detector tick with an open landmarker
OpenDetect(s) == controller.landmarker = "open" /\ PredictDetect(s)

\* a detector tick with a closed landmarker: detectForVideo throws, and
\* predict is left before the next requestAnimationFrame
ClosedDetect ==
    /\ controller.landmarker = "closed"
    /\ "predict" \in frame
    /\ ~(sincePrediction < THROTTLE_MS)
    /\ frame' = frame \ {"predict"}
    /\ sincePrediction' = 0
    /\ predictLoop' = FALSE
    /\ UNCHANGED <<appState, isGrabbing, activePhoto, pend, lastStateRef,
                   wasPinchingRef, targetHandPos, smoothedHandPos, sample,
                   emitted, sampleNo, lastGrab, noHandMs, pickMissed,
                   currentLerp, treeMs, camera, isMirrored, twin, controller,
                   apart>>

UnmountSamples == {NoHand, Hand(500, OpenShape, 150), Hand(500, PointShape, 55),
                   Hand(500, FistShape, 150)}

NextUnmount ==
    \/ \E dt \in FrameDts : BeginFrame(dt)
    \/ PredictThrottled
    \/ PredictNoVideoFrame
    \/ \E s \in UnmountSamples : OpenDetect(s)
    \/ ClosedDetect
    \/ SmoothLoop
    \/ \E dt \in RenderDts : UseFrame(dt)
    \/ Commit
    \/ ResolveVision
    \/ ResolveLandmarker
    \/ ResolveCamera
    \/ ResolveMetadata
    \/ Unmount

SpecUnmount == InitSetup /\ [][NextUnmount]_vars

----------------------------------------------------------------------------
(* MagicWorkshop.tsx.  Every handler is the closure of the render in which *)
(* the user acted: the photos it reads, also after an await, are those of  *)
(* that render.  Clicks are rendered before the next event; each           *)
(* continuation of an async handler runs, and is rendered, on its own.     *)
MaxUrl == 5
MaxInFlight == 2

Range(seq) == {seq[i] : i \in 1 .. Len(seq)}

\* photos.filter((_, i) => i !== index)
Without(seq, index) ==
    [i \in 1 .. (Len(seq) - 1) |-> IF i <= index THEN seq[i] ELSE seq[i + 1]]

\* newPhotos = [...photos]; newPhotos[index] = newUrl
WithAt(seq, index, url) == [seq EXCEPT ![index + 1] = url]

AiKinds == {"generate", "edit"}

Request(kind, index) ==
    [kind |-> kind, captured |-> workshop.photos, index |-> index, url |-> workshop.fresh]

CanStart == workshop.fresh < MaxUrl /\ Cardinality(workshop.requests) < MaxInFlight

\* onChange of the textarea: setPrompt
TypePrompt ==
    /\ ~workshop.prompt
    /\ workshop' = [workshop EXCEPT !.prompt = TRUE]
    /\ UNCHANGED <<pipeline, download, magic>>

\* the generate button (disabled while isProcessing or without a prompt)
\* and handleGenerate up to its await
HandleGenerate ==
    /\ CanStart
    /\ ~workshop.isProcessing /\ workshop.prompt
    /\ workshop' = [workshop EXCEPT !.isProcessing = TRUE,
                                    !.requests = @ \cup {Request("generate", NoIndex)},
                                    !.fresh = @ + 1]
    /\ UNCHANGED <<pipeline, download, magic>>

\* handleGenerate after its await: an image came back
GenerateDone(r) ==
    /\ r \in workshop.requests /\ r.kind = "generate"
    /\ workshop' = [workshop EXCEPT !.photos = Append(r.captured, r.url),
                                    !.prompt = FALSE,
                                    !.isProcessing = FALSE,
                                    !.requests = @ \ {r}]
    /\ UNCHANGED <<pipeline, download, magic>>

\* handleGenerate after its await: no image, or the request failed
GenerateFailed(r) ==
    /\ r \in workshop.requests /\ r.kind = "generate"
    /\ workshop' = [workshop EXCEPT !.isProcessing = FALSE, !.requests = @ \ {r}]
    /\ UNCHANGED <<pipeline, download, magic>>

\* the edit button of photo index (never disabled) and handleEdit up to
\* its first await, the user having answered window.prompt
HandleEdit(index) ==
    /\ CanStart
    /\ index \in 0 .. (Len(workshop.photos) - 1)
    /\ workshop' = [workshop EXCEPT !.isProcessing = TRUE,
                                    !.editingIndex = index,
                                    !.requests = @ \cup {Request("edit", index)},
                                    !.fresh = @ + 1]
    /\ UNCHANGED <<pipeline, download, magic>>

\* handleEdit after its awaits: an image came back
EditDone(r) ==
    /\ r \in workshop.requests /\ r.kind = "edit"
    /\ workshop' = [workshop EXCEPT !.photos = WithAt(r.captured, r.index, r.url),
                                    !.isProcessing = FALSE,
                                    !.editingIndex = NoIndex,
                                    !.requests = @ \ {r}]
    /\ UNCHANGED <<pipeline, download, magic>>

\* handleEdit after its awaits: no image, or a request failed
EditFailed(r) ==
    /\ r \in workshop.requests /\ r.kind = "edit"
    /\ workshop' = [workshop EXCEPT !.isProcessing = FALSE,
                                    !.editingIndex = NoIndex,
                                    !.requests = @ \ {r}]
    /\ UNCHANGED <<pipeline, download, magic>>

\* handleUpload up to its await: a file was chosen
HandleUpload ==
    /\ CanStart
    /\ workshop' = [workshop EXCEPT !.requests = @ \cup {Request("upload", NoIndex)},
                                    !.fresh = @ + 1]
    /\ UNCHANGED <<pipeline, download, magic>>

\* handleUpload after its await
UploadDone(r) ==
    /\ r \in workshop.requests /\ r.kind = "upload"
    /\ workshop' = [workshop EXCEPT !.photos = Append(r.captured, r.url),
                                    !.requests = @ \ {r}]
    /\ UNCHANGED <<pipeline, download, magic>>

RemovePhoto(index) ==
    /\ index \in 0 .. (Len(workshop.photos) - 1)
    /\ workshop' = [workshop EXCEPT !.photos = Without(workshop.photos, index)]
    /\ UNCHANGED <<pipeline, download, magic>>

Indices == 0 .. (MaxUrl - 1)

NextWorkshop ==
    \/ TypePrompt
    \/ HandleGenerate
    \/ \E r \in workshop.requests : GenerateDone(r)
    \/ \E r \in workshop.requests : GenerateFailed(r)
    \/ \E i \in Indices : HandleEdit(i)
    \/ \E r \in workshop.requests : EditDone(r)
    \/ \E r \in workshop.requests : EditFailed(r)
    \/ HandleUpload
    \/ \E r \in workshop.requests : UploadDone(r)
    \/ \E i \in Indices : RemovePhoto(i)

SpecWorkshop == Init /\ [][NextWorkshop]_vars

----------------------------------------------------------------------------
(* The download script.  main() starts download(url, dest) for every file  *)
(* at once; the script is run again after it has ended.  disk is absent,   *)
(* empty, partial or full (the whole body of a 200 response); task is      *)
(* idle, cached (the promise resolved on the existsSync branch of the      *)
(* call main made), waiting (request sent), piping, resolved, rejected or  *)
(* hung (never settled).                                                   *)
MaxRuns == 2

\* download(): the file exists, as main calls it
CacheHit(f) ==
    /\ download.task[f] = "idle"
    /\ download.disk[f] # "absent"
    /\ download' = [download EXCEPT !.task[f] = "cached"]
    /\ UNCHANGED <<pipeline, workshop, magic>>

\* download(): the file does not exist: fs.createWriteStream(dest) and
\* https.get(url)
StartDownload(f) ==
    /\ download.task[f] = "idle"
    /\ download.disk[f] = "absent"
    /\ download' = [download EXCEPT !.task[f] = "waiting", !.opening[f] = TRUE]
    /\ UNCHANGED <<pipeline, workshop, magic>>

\* the write stream opens dest with flag 'w': the file now exists, empty
\* until something is written
FileOpened(f) ==
    /\ download.opening[f]
    /\ download' = [download EXCEPT
                       !.opening[f] = FALSE,
                       !.disk[f] = IF download.task[f] = "piping" THEN "partial" ELSE "empty"]
    /\ UNCHANGED <<pipeline, workshop, magic>>

\* the response is 301 or 302: download(response.headers.location, dest),
\* which returns at once when dest exists, and otherwise creates another
\* write stream and requests the new location
Redirected(f) ==
    /\ download.task[f] = "waiting"
    /\ download' = IF download.disk[f] # "absent"
                   THEN [download EXCEPT !.task[f] = "resolved"]
                   ELSE [download EXCEPT !.opening[f] = TRUE]
    /\ UNCHANGED <<pipeline, workshop, magic>>

\* the response has another status than 200, 301, 302: reject
Refused(f) ==
    /\ download.task[f] = "waiting"
    /\ download' = [download EXCEPT !.task[f] = "rejected"]
    /\ UNCHANGED <<pipeline, workshop, magic>>

\* the request emits 'error': fs.unlink(dest), reject
RequestError(f) ==
    /\ download.task[f] = "waiting"
    /\ download' = [download EXCEPT !.task[f] = "rejected", !.disk[f] = "absent"]
    /\ UNCHANGED <<pipeline, workshop, magic>>

\* the response is 200: response.pipe(file)
Piping(f) ==
    /\ download.task[f] = "waiting"
    /\ download' = [download EXCEPT
                       !.task[f] = "piping",
                       !.disk[f] = IF download.disk[f] = "absent" THEN "absent" ELSE "partial"]
    /\ UNCHANGED <<pipeline, workshop, magic>>

\* the body has been written: 'finish', file.close(), resolve()
Finish(f) ==
    /\ download.task[f] = "piping"
    /\ ~download.opening[f]
    /\ download' = [download EXCEPT !.task[f] = "resolved", !.disk[f] = "full"]
    /\ UNCHANGED <<pipeline, workshop, magic>>

\* the connection breaks while the body arrives: the response ends without
\* the write stream being ended, and the promise never settles
BodyAborted(f) ==
    /\ download.task[f] = "piping"
    /\ download' = [download EXCEPT !.task[f] = "hung"]
    /\ UNCHANGED <<pipeline, workshop, magic>>

Ended(f) == download.task[f] \in {"cached", "resolved", "rejected", "hung"} /\ ~download.opening[f]

\* the process has ended and the script is started again
RunAgain ==
    /\ download.run < MaxRuns
    /\ \A f \in Files : Ended(f)
    /\ download' = [download EXCEPT
                       !.run = @ + 1,
                       !.task = [f \in Files |-> "idle"],
                       !.failed = [f \in Files |-> download.task[f] \in {"rejected", "hung"}]]
    /\ UNCHANGED <<pipeline, workshop, magic>>

NextDownload ==
    \/ \E f \in Files : CacheHit(f)
    \/ \E f \in Files : StartDownload(f)
    \/ \E f \in Files : FileOpened(f)
    \/ \E f \in Files : Redirected(f)
    \/ \E f \in Files : Refused(f)
    \/ \E f \in Files : RequestError(f)
    \/ \E f \in Files : Piping(f)
    \/ \E f \in Files : Finish(f)
    \/ \E f \in Files : BodyAborted(f)
    \/ RunAgain

SpecDownload == Init /\ [][NextDownload]_vars

----------------------------------------------------------------------------
(* App (part_001): handleStateChange and the timeouts it sets.  The        *)
(* controller signals a mode only when it differs from the one it signalled *)
(* before.  Time advances in steps of one second; a timeout that is due    *)
(* runs before time advances further.                                      *)
MaxTimers == 3
Messages == {1, 2}
TickDts == {1000}

\* handleStateChange(SCATTERED)
SignalScattered(m) ==
    /\ magic.mode = TREE
    /\ Len(magic.timers) < MaxTimers
    /\ magic' = [magic EXCEPT !.mode = SCATTERED, !.message = m, !.age = 0,
                              !.timers = Append(@, MESSAGE_MS)]
    /\ UNCHANGED <<pipeline, workshop, download>>

\* handleStateChange(TREE)
SignalTree ==
    /\ magic.mode = SCATTERED
    /\ magic' = [magic EXCEPT !.mode = TREE]
    /\ UNCHANGED <<pipeline, workshop, download>>

\* the callback of the oldest timeout: setMagicMessage("")
TimeoutFires ==
    /\ magic.timers # << >>
    /\ Head(magic.timers) = 0
    /\ magic' = [magic EXCEPT !.message = 0, !.timers = Tail(@)]
    /\ UNCHANGED <<pipeline, workshop, download>>

TimePasses(dt) ==
    /\ \A i \in 1 .. Len(magic.timers) : magic.timers[i] >= dt
    /\ magic' = [magic EXCEPT
                    !.timers = [i \in 1 .. Len(magic.timers) |-> magic.timers[i] - dt],
                    !.age = IF magic.message = 0 THEN 0 ELSE Min(@ + dt, MESSAGE_MS)]
    /\ UNCHANGED <<pipeline, workshop, download>>

NextMagic ==
    \/ \E m \in Messages : SignalScattered(m)
    \/ SignalTree
    \/ TimeoutFires
    \/ \E dt \in TickDts : TimePasses(dt)

SpecMagic == Init /\ [][NextMagic]_vars

----------------------------------------------------------------------------
(* Vocabulary of the properties *)

\* a step in which the detector ran an inference
SampleStep == sampleNo' # sampleNo
\* ... and its result held a hand
HandStep == SampleStep /\ sample'.hand
FistStep == HandStep /\ sample'.folded
OpenStep == HandStep /\ ~sample'.folded

\* between animation frames, every queued update rendered
Settled == frame = {} /\ pend = NoPending

\* the mode React will show once the queued updates are rendered
ModeAfter(p) == Committed(p.app, appState)
GrabAfter(p) == Committed(p.grab, isGrabbing)

\* a step in which useFrame selects a photo
RenderStep == "render" \in frame /\ "render" \notin frame'

LoopStep == "loop" \in frame /\ "loop" \notin frame'

Axes == {"x", "y", "z"}

\* distance below which a step of 0.15 times the gap rounds to nothing
SmoothResolution == 3

\* distance below which a camera step of 0.4 times the gap rounds to nothing
CameraResolution == 1

\* a step in which an AI request of the workshop completed and delivered
\* its image
Finished == workshop.requests \ workshop'.requests
AiDelivered(r) == r \in Finished /\ r.kind \in AiKinds /\ r.url \in Range(workshop'.photos)

\* the photo an edit replaces
Replaced(r) == IF r.kind = "edit" THEN {r.captured[r.index + 1]} ELSE {}

PickStep == /\ pend'.active # pend.active
            /\ pend'.active # NoUpd
            /\ pend'.active[1] \in PhotoIds

----------------------------------------------------------------------------
(* C1.  A fist resets the application to TREE: a fist sample that finds    *)
(* the application in TREE or SCATTERED leaves TREE as the mode React      *)
(* renders next, and one that finds it in PHOTO_VIEW leaves SCATTERED (the *)
(* next fist then completing the reset).  As stated in the claim.          *)
C1_FistResetsToTree ==
    [][FistStep =>
          IF appState = PHOTO_VIEW
          THEN ModeAfter(pend') = SCATTERED
          ELSE ModeAfter(pend') = TREE]_vars

C3_ReleaseReturnsToScattered ==
    [][/\ (OpenStep /\ appState = PHOTO_VIEW /\ wasPinchingRef /\ ~wasPinchingRef') =>
            /\ sample'.dist > PINCH_EXIT
            /\ emitted'.grab = <<FALSE>>
            /\ emitted'.state = None
            /\ GrabAfter(pend') = FALSE
            /\ pend'.app = <<SCATTERED>>
       /\ (appState = PHOTO_VIEW /\ appState' # PHOTO_VIEW) =>
            /\ appState' = SCATTERED
            /\ lastGrab = <<isGrabbing'>>
            /\ (activePhoto' = NoPhoto \/ pend'.active = <<NoPhoto>>)]_vars

\* the pinch has just been released over a held photo
C3_Witness ==
    /\ appState = PHOTO_VIEW /\ isGrabbing /\ activePhoto \in PhotoIds
    /\ sample.hand /\ ~sample.folded /\ sample.dist > PINCH_EXIT
    /\ ~wasPinchingRef /\ emitted.grab = <<FALSE>>
    /\ pend.app = <<SCATTERED>>

(* C4.  With the controller in TREE, a fist sample signals no mode change  *)
(* and grab false; the first open sample without pinch signals SCATTERED   *)
(* once and grab false; with the controller then in SCATTERED, further     *)
(* such samples signal no mode change and grab false.  The application     *)
(* leaves TREE only after the controller has recorded SCATTERED.           *)
C4_FistThenOpen ==
    [][/\ (FistStep /\ lastStateRef = TREE) =>
            /\ emitted'.state = None
            /\ emitted'.grab = <<FALSE>>
            /\ lastStateRef' = TREE
            /\ (appState = TREE => ModeAfter(pend') = TREE)
       /\ (OpenStep /\ ~wasPinchingRef /\ sample'.dist >= PINCH_ENTER) =>
            /\ emitted'.state = (IF lastStateRef = TREE THEN SCATTERED ELSE None)
            /\ emitted'.grab = <<FALSE>>
            /\ lastStateRef' = SCATTERED
            /\ (lastStateRef = TREE => ModeAfter(pend') = SCATTERED)
       /\ (appState = TREE /\ appState' # TREE) =>
            /\ appState' = SCATTERED
            /\ lastStateRef = SCATTERED]_vars

\* the first open sample after TREE has been processed, grab still false
C4_Witness ==
    /\ appState = TREE /\ pend.app = <<SCATTERED>> /\ emitted.state = SCATTERED
    /\ sample.hand /\ ~sample.folded /\ emitted.grab = <<FALSE>> /\ ~isGrabbing

(* C5.  On a non-fist sample with thumb-index distance d, a false latch    *)
(* becomes true exactly when d < 0.06 and a true latch becomes false       *)
(* exactly when d > 0.10.                                                  *)
C5_TwoThresholdLatch ==
    [][OpenStep =>
          /\ (~wasPinchingRef => (wasPinchingRef' <=> sample'.dist < 60))
          /\ (wasPinchingRef => (~wasPinchingRef' <=> sample'.dist > 100))]_vars

\* d = 0.10 exactly arrived while the latch was true, and did not release it
C5_Witness ==
    sample.hand /\ ~sample.folded /\ sample.dist = 100 /\ wasPinchingRef

(* C6.  With the latch true, a non-fist sample whose distance is at or     *)
(* below PINCH_EXIT keeps the latch true and signals grab true as the      *)
(* sample before it did: no latch edge and no grab edge.                   *)
C6_NoEdgeInsideHysteresisBand ==
    [][(OpenStep /\ wasPinchingRef /\ sample'.dist <= PINCH_EXIT) =>
          /\ wasPinchingRef'
          /\ lastGrab = <<TRUE>>
          /\ emitted'.grab = <<TRUE>>
          /\ GrabAfter(pend) = TRUE
          /\ GrabAfter(pend') = TRUE]_vars

\* a distance between the thresholds arrived after the latch was set
C6_Witness ==
    /\ sample.hand /\ ~sample.folded /\ sample.dist = 65
    /\ wasPinchingRef /\ isGrabbing /\ emitted.grab = <<TRUE>>

(* C7.  On a sample with all four fingers curled, grab is signalled false  *)
(* and the latch is false afterwards, whatever the thumb-index distance.   *)
C7_FistIsNeverAPinch ==
    [][FistStep => (emitted'.grab = <<FALSE>> /\ ~wasPinchingRef')]_vars

\* a fist whose thumb-index distance is below PINCH_ENTER
C7_Witness ==
    /\ sample.hand /\ sample.folded /\ sample.dist < PINCH_ENTER
    /\ emitted.grab = <<FALSE>> /\ ~wasPinchingRef

C9_NoHandLeavesPhotoView ==
    (noHandMs > 1000 /\ Settled) => (appState # PHOTO_VIEW /\ activePhoto = NoPhoto)

(* C10, as stated.  After more than 200 ms without a landmark sample the   *)
(* raw pointer target is the origin.                                       *)
C10_NoHandTargetsOrigin ==
    noHandMs > 200 => targetHandPos = Origin

(* C11, as stated.  After a sample with no hand, grab is false: the value  *)
(* the application renders next is false, whatever it was before.          *)
C11_NoHandClearsGrab ==
    [][(SampleStep /\ ~sample'.hand) => GrabAfter(pend') = FALSE]_vars

(* C12.  A sample with no hand leaves the raw pointer, the pinch latch and *)
(* the controller's mode record unchanged, calls no callback and queues no *)
(* update.                                                                 *)
C12_NoHandTouchesNothing ==
    [][(SampleStep /\ ~sample'.hand) =>
          /\ targetHandPos' = targetHandPos
          /\ wasPinchingRef' = wasPinchingRef
          /\ lastStateRef' = lastStateRef
          /\ emitted' = NoEvents
          /\ pend' = pend]_vars

\* a sample with no hand has arrived while the latch was true and the
\* pointer target away from the origin
C12_Witness ==
    /\ sampleNo = 1 /\ ~sample.hand /\ emitted = NoEvents
    /\ wasPinchingRef /\ targetHandPos # Origin /\ lastStateRef = SCATTERED

(* C13.  An inference runs only in an animation frame that arrives at      *)
(* least 32 ms after the last admitted frame, and that frame becomes the   *)
(* last admitted one; a frame that arrives earlier runs no inference,      *)
(* processes no gesture and leaves the time of the last admission alone.   *)
C13_InferencesThrottled ==
    [][/\ SampleStep => (sincePrediction >= 32 /\ sincePrediction' = 0)
       /\ ("predict" \in frame /\ "predict" \notin frame' /\ sincePrediction < 32) =>
             UNCHANGED <<sampleNo, sample, emitted, sincePrediction, pend,
                         lastStateRef, wasPinchingRef, targetHandPos>>]_vars

\* a frame arrived 16 ms after an admitted one and its detector tick is over
C13_Witness ==
    /\ sincePrediction = 16 /\ "predict" \notin frame /\ frame # {}
    /\ sample.hand

(* C14, as stated.  A render tick reads the state that results from the    *)
(* samples processed before it: a pick runs only if, with the updates of   *)
(* the samples already processed, the mode is SCATTERED and grab is true.  *)
C14_RenderTickSeesProcessedSample ==
    [][PickStep => (ModeAfter(pend) = SCATTERED /\ GrabAfter(pend) = TRUE)]_vars

(* C15, as stated.  In every state a render tick can observe, a photo is   *)
(* selected exactly when the mode is PHOTO_VIEW.                           *)
C15_ModeAndSelectionAgree ==
    "render" \in frame => (activePhoto # NoPhoto <=> appState = PHOTO_VIEW)

(* C17.  A render tick selects a photo only when the rendered mode is      *)
(* SCATTERED (never TREE or PHOTO_VIEW), grab is rendered true and nothing *)
(* is selected or queued for selection; a selected photo is only ever      *)
(* replaced by no selection, never directly by another photo.              *)
C17_PickOnlyInScatteredWithoutSelection ==
    [][/\ PickStep =>
            /\ appState \notin {TREE, PHOTO_VIEW}
            /\ isGrabbing
            /\ activePhoto = NoPhoto
            /\ pend.active = NoUpd
       /\ activePhoto \in PhotoIds => activePhoto' \in {activePhoto, NoPhoto}
       /\ (appState # SCATTERED \/ ~isGrabbing \/ activePhoto # NoPhoto) =>
            (pend'.app # pend.app => pend'.app # <<PHOTO_VIEW>>)]_vars

\* a photo has been selected and rendered, with the pinch still held
C17_Witness ==
    /\ appState = PHOTO_VIEW /\ isGrabbing /\ activePhoto \in PhotoIds
    /\ wasPinchingRef /\ "render" \notin frame /\ frame # {}

(* C16, as stated.  Whatever the detector delivers, also a hand with fewer *)
(* than 21 landmarks, the detector tick ends with the detection loop       *)
(* scheduled again.                                                        *)
C16_MalformedSampleKeepsLoop == [][predictLoop => predictLoop']_vars

(* C18, as stated.  The morph parameter is within [0,1] after every render *)
(* tick, and every render tick moves it toward the target of the rendered  *)
(* mode (0 in TREE, 1 otherwise) without passing the target.               *)
C18_MorphStaysInUnitInterval ==
    [][RenderStep =>
          /\ currentLerp' \in 0 .. MorphOne
          /\ IF appState = TREE
             THEN currentLerp' \in 0 .. currentLerp
             ELSE currentLerp' \in currentLerp .. MorphOne]_vars

(* C19, as stated.  Once the mode has been rendered as TREE for 2 seconds  *)
(* of render ticks, the morph parameter is within 1% of its TREE value 0.  *)
C19_MorphBackWithinTwoSeconds ==
    (appState = TREE /\ treeMs >= 2000) => currentLerp <= MorphOne \div 100

(* C20.  With a constant raw pointer, every smoothing step leaves the gap  *)
(* |s - raw| of each axis no larger than before, strictly smaller while it *)
(* exceeds the rounding resolution, and never on the other side of the raw *)
(* value; the smoothed pointer ends within the resolution of the raw one.  *)
C20_SmoothingConverges ==
    /\ [][(LoopStep /\ targetHandPos' = targetHandPos) =>
            \A k \in Axes :
                LET gap  == smoothedHandPos[k] - targetHandPos[k]
                    gap2 == smoothedHandPos'[k] - targetHandPos[k]
                IN  /\ Abs(gap2) <= Abs(gap)
                    /\ gap * gap2 >= 0
                    /\ (Abs(gap) > SmoothResolution => Abs(gap2) < Abs(gap))]_vars
    /\ <>[](\A k \in Axes :
               Abs(smoothedHandPos[k] - targetHandPos[k]) <= SmoothResolution)

\* the smoothed pointer has closed in on a raw pointer at (1, -1, 1)
C20_Witness ==
    /\ targetHandPos = [x |-> 1000, y |-> -1000, z |-> 1000]
    /\ smoothedHandPos.x \in 997 .. 999
    /\ smoothedHandPos.y \in -999 .. -997

(* C21, as stated.  In PHOTO_VIEW every render tick eases the camera       *)
(* toward the orbit target of the smoothed pointer: on each axis the       *)
(* distance to that target does not grow, and it shrinks while it exceeds  *)
(* the rounding resolution.                                                *)
C21_PhotoViewCameraOrbits ==
    [][(RenderStep /\ appState = PHOTO_VIEW) =>
          \A k \in Axes :
              LET gap  == camera[k] - OrbitTarget(smoothedHandPos)[k]
                  gap2 == camera'[k] - OrbitTarget(smoothedHandPos)[k]
              IN  /\ Abs(gap2) <= Abs(gap)
                  /\ (Abs(gap) > CameraResolution => Abs(gap2) < Abs(gap))]_vars

(* C22.  On every sample with a hand, the raw pointer x is (0.5 - cx) * 2  *)
(* with mirroring on and (cx - 0.5) * 2 with it off, cx the image x of the *)
(* palm centre, and a controller with the other mirror setting computes    *)
(* the negated x from the same landmarks (+0.5 and -0.5 for cx = 0.25);    *)
(* pointer y and z, the pinch latch, the recorded mode and the mode and    *)
(* grab signals are the same under both settings.                          *)
C22_MirrorParity ==
    [][HandStep =>
          /\ targetHandPos'.x = -twin'.target.x
          /\ targetHandPos'.x = (IF isMirrored THEN 500 ELSE -500)
          /\ targetHandPos'.y = twin'.target.y
          /\ targetHandPos'.z = twin'.target.z
          /\ wasPinchingRef' = twin'.wasPinching
          /\ lastStateRef' = twin'.lastState
          /\ emitted'.state = twin'.state
          /\ emitted'.grab = twin'.grab]_vars

\* with mirroring switched off, a pinching hand at image x = 0.25 has put
\* the pointer at -0.5 and that of the mirrored twin at +0.5
C22_Witness ==
    /\ ~isMirrored /\ sample.hand /\ wasPinchingRef /\ twin.wasPinching
    /\ targetHandPos.x = -500 /\ twin.target.x = 500
    /\ emitted.state = SCATTERED

(* C23, as stated.  Once the updates queued by the detector ticks have     *)
(* been rendered, the controller records TREE exactly when the application *)
(* mode is TREE.                                                           *)
C23_ControllerAgreesOnTree ==
    Settled => (lastStateRef = TREE <=> appState = TREE)

(* C24, as stated.  Once every queued update has been rendered, the mode   *)
(* is PHOTO_VIEW only with grab true.                                      *)
C24_PhotoViewOnlyWhileGrabbing ==
    Settled => (appState = PHOTO_VIEW => isGrabbing)

(* C25, as stated.  Once the hand controller is unmounted, no detector     *)
(* tick is scheduled or pending, the camera stream is not live and the     *)
(* landmarker is not open, whichever await of setup() the unmount found    *)
(* pending.                                                                *)
C25_UnmountReleasesEverything ==
    ~controller.mounted =>
        /\ ~predictLoop
        /\ "predict" \notin frame
        /\ controller.stream # "live"
        /\ controller.landmarker # "open"

(* C26, as stated.  When an AI generation or edit completes with an image, *)
(* the list it leaves holds every photo that was in the list just before   *)
(* (but the one the edit replaces), so no upload made meanwhile is lost,   *)
(* and holds no photo that was not in it (but the new image), so no        *)
(* removal made meanwhile is undone.                                       *)
C26_CompletionKeepsLaterChanges ==
    [][\A r \in workshop.requests :
          AiDelivered(r) =>
             /\ Range(workshop.photos) \ Replaced(r) \subseteq Range(workshop'.photos)
             /\ Range(workshop'.photos) \ {r.url} \subseteq Range(workshop.photos)]_vars

(* C27, as stated.  While an AI request is in flight isProcessing is true, *)
(* and while an edit is in flight editingIndex is not null.                *)
C27_ProcessingCoversRequests ==
    /\ (\E r \in workshop.requests : r.kind \in AiKinds) => workshop.isProcessing
    /\ (\E r \in workshop.requests : r.kind = "edit") => workshop.editingIndex # NoIndex

(* C28, as stated.  When download(url, dest) has resolved for a file that  *)
(* main did not find on disk, dest holds the whole body of a 200 response, *)
(* also when the first answer was a redirect.                              *)
C28_ResolvedMeansDownloaded ==
    \A f \in Files : download.task[f] = "resolved" => download.disk[f] = "full"

(* C29, as stated.  A file whose download failed in the previous run is    *)
(* not found as cached by the next run.                                    *)
C29_FailedDownloadIsNotCached ==
    [][\A f \in Files :
          (download.task[f] = "idle" /\ download'.task[f] = "cached") => ~download.failed[f]]_vars

(* C30, as stated.  A magic message is cleared only once it has been       *)
(* displayed for the full timeout since the most recent change to          *)
(* SCATTERED.                                                              *)
C30_MessageShownForFullTimeout ==
    [][(magic.message # 0 /\ magic'.message = 0) => magic.age >= MESSAGE_MS]_vars

====
